---- MODULE Spec2Model ----
(***************************************************************************)
(* Order relay between a storefront, a courier and a fiscal receipt        *)
(* service (src/app.py).  The state is the two module-level dictionaries   *)
(* processed_webhooks and processed_orders, the remote state of the three  *)
(* services, and the position and locals of every HTTP request being       *)
(* handled.  Flask serves requests on concurrent threads, so a handler is  *)
(* a sequence of steps that interleave with the steps of other handlers;   *)
(* every access to shared or remote state is a step of its own.            *)
(*                                                                         *)
(* Four specifications:                                                    *)
(*   Spec         the program as Python loads it.  class EHDMService ends  *)
(*                at line 67 (line 69 is a def at column 0), so its only   *)
(*                methods are __init__ and login; the functions of lines   *)
(*                185-827 are nested in _extract_hs_code after its return  *)
(*                and are never bound.                                     *)
(*   SpecMethods  the same handlers with the functions of lines 69-827     *)
(*                bound as the EHDMService methods their self parameter    *)
(*                declares; used for statements about those functions.     *)
(*                Cancellations and deliveries of bodies that are not      *)
(*                orders are explored under Spec only.                     *)
(*   SpecAdapter  direct calls of those methods on one EHDMService         *)
(*                instance, one after the other, and a restart of the      *)
(*                process.                                                 *)
(*   SpecFunctions                                                         *)
(*                the functions that send nothing (the customer data       *)
(*                resolver, the line amounts of the two requests) applied  *)
(*                to order records drawn from a bounded set.               *)
(*   SpecRestart  the handlers of SpecMethods serving one request at a     *)
(*                time, and a restart of the process between requests.     *)
(***************************************************************************)
EXTENDS Integers, Sequences, FiniteSets, TLC

\* ------------------------------------------------------------- bounds
NumOrders == 1
MaxReq == 2
MaxStamp == 2
MaxReceiptId == 2
MaxCalls == 3
MaxQuantity == 3
MaxLines == 2
MaxRestarts == 1
MaxReqAfterRestart == 1

\* ---------------------------------------------------------- constants
MaxRetry == 3

Orders == 1 .. NumOrders
Req == 1 .. MaxReq
Stamps == 1 .. MaxStamp

\* Tags used as a status channel on a storefront order.
Tags == {"pending-confirmation", "confirmed", "processed", "fulfilled", "shipped"}

\* Tags a person applies by hand in the storefront admin; a hand-typed tag keeps
\* its capitals.
HumanTags == {"Confirmed", "shipped"}

RawTags == Tags \cup {"Confirmed"}

\* Attributes of class EHDMService as the module is loaded.
EHDMServiceLoaded == {"__init__", "login"}

\* Functions of lines 69-827 that take self.
EHDMServiceFunctions ==
    {"_prepare_receipt_data", "_extract_hs_code", "_generate_unique_code",
     "generate_fiscal_receipt", "process_order_refund",
     "_create_fulfillment_simple", "update_shopify_tracking_with_shipping_links",
     "_update_order_manually", "extract_customer_data", "create_courier_order",
     "update_shopify_tracking", "_mark_order_processed", "map_region_to_province"}

VARIABLES
    attrs,                \* attribute names of class EHDMService
    processed_webhooks,   \* keys of the dict processed_webhooks
    processed_orders,     \* keys of the dict processed_orders
    shop_tags,            \* storefront: tags of each order
    shop_fulfilled,       \* storefront: order has a TransImpex Express fulfillment
    shop_notes,           \* storefront: order's note_attributes carry the tracking number
    courier_barcodes,     \* courier: barcode ids of the draft orders it accepted
    courier_posts,        \* number of create-draft-order requests sent, per order
    print_posts,          \* number of print-receipt requests sent, per order
    receipts,             \* number of fiscal receipts issued, per order
    confirmed_seen,       \* orders that have carried the 'confirmed' tag
    shop_cancelled,       \* storefront: the order was cancelled
    courier_refs,         \* courier: barcode ids of the requests it was sent
    reverse_posts,        \* number of reverse-receipt requests sent, per order
    adapter,              \* an EHDMService instance whose methods are called directly
    pure,                 \* inputs and results of the functions that send nothing
    req                   \* per request: endpoint, position and locals

vars == <<attrs, processed_webhooks, processed_orders, shop_tags, shop_fulfilled,
          shop_notes, courier_barcodes, courier_posts, print_posts, receipts, confirmed_seen,
          shop_cancelled, courier_refs, reverse_posts, adapter, pure, req>>

\* ------------------------------------------------------------ helpers

\* A webhook body.  shape "order" is an order as the storefront sends it;
\* "no_id" is a body without the key 'id' (id 0), "bad_tags" a body whose
\* 'tags' is not a string (null).
NoPayload == [id |-> 0, tags |-> {}, stamp |-> 0, cancelled |-> FALSE, shape |-> "order"]

Payloads ==
    [id : Orders, tags : SUBSET RawTags, stamp : Stamps, cancelled : BOOLEAN,
     shape : {"order"}]

\* Bodies that are not orders.
Malformed ==
    {[NoPayload EXCEPT !.stamp = 1, !.shape = "no_id"]}
        \cup {[NoPayload EXCEPT !.id = o, !.stamp = 1, !.shape = "bad_tags"] : o \in Orders}

\* md5 of json.dumps(webhook_data, sort_keys=True): the parsed body, its keys in
\* sorted order.
generate_webhook_id(p) ==
    <<"cancelled_at", p.cancelled, "id", p.id, "stamp", p.stamp,
      "tags", IF p.shape = "bad_tags" THEN {"null"} ELSE p.tags>>

\* Ledger keys: the webhooks use the JSON number, the manual endpoint the URL string.
IntKey(o) == <<"int", o>>
StrKey(o) == <<"str", o>>

\* barcode_id of one attempt: the bare order id, or "<id>-retry<n>".
Barcode(o, retry_count) == <<o, retry_count>>

NoTracking == <<0, 0>>

\* A request: its endpoint, position and locals.  The last five fields record
\* what the request did: solo (it started while no other request was being
\* handled), calls (outbound HTTP requests it sent), ext (services that failed
\* it), wb (how the write-back succeeded) and how (how process_order_* ended).
IdleReq ==
    [ep |-> "none", pc |-> "idle", p |-> NoPayload, o |-> 0, key |-> <<"int", 0>>,
     token |-> FALSE, rs |-> "unbound", cache |-> {}, retry |-> 0,
     trk |-> NoTracking, resp |-> 0, msg |-> "none",
     solo |-> FALSE, calls |-> 0, ext |-> {}, wb |-> "none", how |-> "none"]

\* The JSON response of a handler.
Reply(rq, code, m) == [rq EXCEPT !.pc = "done", !.resp = code, !.msg = m]

\* process_order_* returned to handle_order_updated / process_order_manual:
\* True answers 200, False answers 500.  `how` is where it returned: "cached"
\* and "shown" (already processed) and "marked" (fulfilled now) return True,
\* "failed" returns False.
Return(rq, how) ==
    IF how = "failed"
      THEN [Reply(rq, 500, "failed") EXCEPT !.how = how]
      ELSE [Reply(rq, 200, "processed") EXCEPT !.how = how]

\* One outbound HTTP request to service svc, answered `out`.
Called(rq, svc, out) ==
    [rq EXCEPT !.calls = @ + 1,
               !.ext = IF out = "ok" THEN @ ELSE @ \cup {svc}]

\* n more outbound requests whose answers decide nothing.
Also(rq, n) == [rq EXCEPT !.calls = @ + n]

Shipments(o) == Cardinality({b \in courier_barcodes : b[1] = o})

\* [tag.strip().lower() for tag in tags.split(',')]: one raw tag, normalised.
NormTag(t) == IF t = "Confirmed" THEN "confirmed" ELSE t

ParseTags(raw) == {NormTag(t) : t \in raw}

Set(r, rq) == req' = [req EXCEPT ![r] = rq]

\* A delivery: the storefront's current snapshot of an order, or a redelivery
\* of a body it sent before (at-least-once delivery).
Deliverable ==
    {p \in Payloads : p.tags = shop_tags[p.id] /\ p.cancelled = shop_cancelled[p.id]}
        \cup {req[r].p : r \in {x \in Req : req[x].ep \in {"paid", "updated"}
                                           /\ req[x].p.shape = "order"}}

\* Request slots are taken in order.
Free(r) == req[r].pc = "idle" /\ (IF r = 1 THEN TRUE ELSE req[r - 1].pc # "idle")

\* No request is being handled.
Quiet == \A r \in Req : req[r].pc \in {"idle", "done"}

\* Every request started after the ones before it had been answered.
Sequential == \A r \in Req : req[r].pc # "idle" => req[r].solo

ledger == <<processed_webhooks, processed_orders>>
remote == <<shop_tags, shop_fulfilled, shop_notes, courier_barcodes>>
counters == <<courier_posts, print_posts, receipts>>

\* What no request handler writes.
aside == <<attrs, shop_cancelled, reverse_posts, adapter, pure>>

\* A response of the receipt service to a print request: its status, its
\* receiptId (0: the body has none) and whether the body has a link.
PrintResponses == [status : {200, 500}, receiptId : 0 .. MaxReceiptId, link : BOOLEAN]

\* receipt_info stored without the receipt id of the response.
ReceiptInfo_NoId(resp) ==
    [receipt_id |-> 0,
     link |-> IF resp.link THEN "given"
              ELSE IF resp.receiptId # 0 THEN "constructed" ELSE "none"]

\* receipt_info as stored in receipts_processed: receipt_id (0: None) and link
\* ("given" by the response, "constructed" from the receipt id, or "none").
ReceiptInfo(resp) ==
    [receipt_id |-> resp.receiptId,
     link |-> IF resp.link THEN "given"
              ELSE IF resp.receiptId # 0 THEN "constructed" ELSE "none"]

\* What a direct call returned: the function, the order, the success flag, the
\* record returned ({} for None) and the message; resp is the response the
\* call got from the receipt service (NoResponse when it sent no request).
NoResponse == [status |-> 0, receiptId |-> 0, link |-> FALSE]

NoReturn ==
    [fn |-> "none", o |-> 0, ok |-> FALSE, data |-> {}, msg |-> "none",
     resp |-> NoResponse]

\* EHDMService(): token None, receipts_processed {}.  n counts the direct calls
\* and restarts so far.
NewAdapter == [token |-> FALSE, receipts_processed |-> <<>>, n |-> 0, ret |-> NoReturn]

\* ------------------------------------------- the customer data resolver

\* A JSON value of an order field: the key is absent, null, the empty string,
\* a string of white space, or a string with text.  A text is written as the
\* source and field it stands in.
Missing == [s |-> "<missing>", f |-> ""]
Null == [s |-> "<null>", f |-> ""]
Empty == [s |-> "", f |-> ""]
Blank == [s |-> " ", f |-> ""]
Text(s, f) == [s |-> s, f |-> f]

\* An exception raised while the value was computed (AttributeError:
\* 'NoneType' object has no attribute ...).
Raised == [s |-> "<AttributeError>", f |-> ""]

\* Python truth of a value read with .get(key): None and '' are false.
Truthy(v) == v \notin {Missing, Null, Empty}

\* dict.get(key, ''): the default only stands in for an absent key.
GetStr(v) == IF v = Missing THEN Empty ELSE v

\* dict.get(key): None for an absent key.
Get(v) == IF v = Missing THEN Null ELSE v

\* str.strip(); None has no strip.
Strip(v) ==
    IF v \in {Null, Raised} THEN Raised
    ELSE IF v = Blank THEN Empty
    ELSE v

\* f"{a} {b}".strip() of two stripped strings.
Join(a, b, f) ==
    IF a = Raised \/ b = Raised THEN Raised
    ELSE IF b = Empty THEN a
    ELSE IF a = Empty THEN b
    ELSE Text(a.s, f)

AddressFields ==
    {"first_name", "last_name", "address1", "address2", "phone", "city", "province"}

\* An address object with every field v; `is` tells a dict from an
\* absent key and from null.
Address(is, v) ==
    [is |-> is, first_name |-> v, last_name |-> v, address1 |-> v,
     address2 |-> v, phone |-> v, city |-> v, province |-> v]

\* An address with text in every field.
Filled(s) ==
    [is |-> "dict", first_name |-> Text(s, "first_name"),
     last_name |-> Text(s, "last_name"), address1 |-> Text(s, "address1"),
     address2 |-> Text(s, "address2"), phone |-> Text(s, "phone"),
     city |-> Text(s, "city"), province |-> Text(s, "province")]

AbsentAddress == Address("missing", Missing)

\* The address objects an order may carry as source s: absent, null, filled,
\* filled with address2 null (as the storefront sends an address of one line),
\* white space in every field, empty strings in every field, name, street and
\* phone only, and a last name with first_name null.
Addresses(s) ==
    {AbsentAddress, Address("null", Missing), Filled(s),
     [Filled(s) EXCEPT !.address2 = Null],
     Address("dict", Blank), Address("dict", Empty),
     [Filled(s) EXCEPT !.address2 = Missing, !.city = Missing, !.province = Missing],
     [Address("dict", Missing) EXCEPT !.first_name = Null,
                                       !.last_name = Text(s, "last_name")]}

NoCustomer ==
    [is |-> "missing", first_name |-> Missing, last_name |-> Missing,
     phone |-> Missing, email |-> Missing,
     default_address |-> AbsentAddress]

Customers ==
    {NoCustomer, [NoCustomer EXCEPT !.is = "null"]}
      \cup {[is |-> "dict", first_name |-> n, last_name |-> n, phone |-> p,
             email |-> e, default_address |-> d] :
               n \in {Missing, Text("customer", "name")},
               p \in {Missing, Blank, Text("customer", "phone")},
               e \in {Missing, Null, Text("customer", "email")},
               d \in {AbsentAddress,
                      Address("null", Missing),
                      Filled("default_address"),
                      Address("dict", Blank)}}

\* The order records the resolver is applied to.
OrderRecords ==
    [shipping_address : Addresses("shipping_address"),
     billing_address : Addresses("billing_address"),
     customer : Customers,
     phone : {Missing, Blank, Text("order", "phone")},
     email : {Missing, Text("order", "email")},
     contact_email : {Missing, Null}]

\* An order with no source populated.
BareOrder ==
    [shipping_address |-> AbsentAddress,
     billing_address |-> AbsentAddress,
     customer |-> NoCustomer,
     phone |-> Missing, email |-> Missing, contact_email |-> Missing]

ProfileFields == {"name", "address", "phone", "city", "province", "email"}

\* The literal defaults.
DefaultName == Text("<default>", "Customer")
DefaultAddress == Text("<default>", "Address Not Provided")
DefaultPhone == Text("<default>", "+374 00 000 000")
DefaultCity == Text("<default>", "Yerevan")
DefaultProvince == Text("<default>", "Yerevan")

\* first_name / last_name of one source, as both name functions read them:
\* Empty when the source has no name.
NameOf(a) ==
    IF a.is = "null" THEN Raised
    ELSE IF Truthy(a.first_name) \/ Truthy(a.last_name)
      THEN Join(Strip(GetStr(a.first_name)), Strip(GetStr(a.last_name)),
                "first_name last_name")
      ELSE Empty

\* The first of the values that is not Empty; a Raised value ends the search.
RECURSIVE FirstOf(_, _)
FirstOf(vs, default) ==
    IF vs = <<>> THEN default
    ELSE IF Head(vs) = Empty THEN FirstOf(Tail(vs), default)
    ELSE Head(vs)

_extract_name_from_order(shipping_address, billing_address) ==
    LET n1 == NameOf(shipping_address)
    IN  IF n1 # Empty THEN n1 ELSE FirstOf(<<NameOf(billing_address)>>, Empty)

_extract_name_from_customer(customer, default_address) ==
    LET n1 == NameOf(customer)
    IN  IF n1 # Empty THEN n1 ELSE FirstOf(<<NameOf(default_address)>>, DefaultName)

\* address1 and address2 of one source; Empty when it has no address1.
StreetOf(a) ==
    IF a.is = "null" THEN Raised
    ELSE IF Truthy(a.address1)
      THEN Join(Strip(GetStr(a.address1)), Strip(GetStr(a.address2)),
                "address1 address2")
      ELSE Empty

_extract_address_from_order(shipping_address, billing_address) ==
    LET a1 == StreetOf(shipping_address)
    IN  IF a1 # Empty THEN a1 ELSE FirstOf(<<StreetOf(billing_address)>>, Empty)

_extract_address_from_customer(default_address) ==
    FirstOf(<<StreetOf(default_address)>>, DefaultAddress)

\* The phone of one source is returned as soon as the raw value is true, also
\* when nothing is left of it after strip(); Missing when the raw value is false.
PhoneOf(a) ==
    IF a.is = "null" THEN Raised
    ELSE IF Truthy(a.phone) THEN Strip(GetStr(a.phone))
    ELSE Missing

_extract_phone_from_order(shipping_address, billing_address) ==
    LET p1 == PhoneOf(shipping_address)
    IN  IF p1 # Missing THEN p1
        ELSE LET p2 == PhoneOf(billing_address)
             IN  IF p2 # Missing THEN p2 ELSE Empty

_extract_phone_from_customer(customer, default_address) ==
    LET p1 == PhoneOf(customer)
    IN  IF p1 # Missing THEN p1
        ELSE LET p2 == PhoneOf(default_address)
             IN  IF p2 # Missing THEN p2 ELSE DefaultPhone

CityOf(a) ==
    IF a.is = "null" THEN Raised
    ELSE IF Truthy(a.city) THEN Strip(GetStr(a.city))
    ELSE Empty

_extract_city(shipping_address, billing_address, default_address) ==
    LET c1 == CityOf(shipping_address)
    IN  IF c1 # Empty THEN c1
        ELSE LET c2 == CityOf(billing_address)
             IN  IF c2 # Empty THEN c2
                 ELSE FirstOf(<<CityOf(default_address)>>, DefaultCity)

\* The province is returned as it is read, without strip().
ProvinceOf(a) ==
    IF a.is = "null" THEN Raised
    ELSE IF Truthy(a.province) THEN a.province
    ELSE Empty

_extract_province(shipping_address, billing_address, default_address) ==
    LET p1 == ProvinceOf(shipping_address)
    IN  IF p1 # Empty THEN p1
        ELSE LET p2 == ProvinceOf(billing_address)
             IN  IF p2 # Empty THEN p2
                 ELSE FirstOf(<<ProvinceOf(default_address)>>, DefaultProvince)

\* a or b.
Or(a, b) == IF Truthy(a) THEN a ELSE b

\* The profile returned by extract_customer_data(order), or the exception it
\* raises.  customer.get('default_address', {}) at line 529 raises for a
\* customer that is null.
extract_customer_data(order) ==
    LET shipping_address == order.shipping_address
        billing_address == order.billing_address
        customer == order.customer
        default_address == customer.default_address
        name1 == _extract_name_from_order(shipping_address, billing_address)
        address1 == _extract_address_from_order(shipping_address, billing_address)
        phone1 == IF Truthy(order.phone) THEN order.phone
                  ELSE _extract_phone_from_order(shipping_address, billing_address)
        email1 == Or(Get(order.email), GetStr(order.contact_email))
        name == IF ~ Truthy(name1) \/ name1 = DefaultName
                  THEN _extract_name_from_customer(customer, default_address)
                  ELSE name1
        address == IF ~ Truthy(address1) \/ address1 = DefaultAddress
                     THEN _extract_address_from_customer(default_address)
                     ELSE address1
        phone == IF ~ Truthy(phone1) \/ phone1 = DefaultPhone
                   THEN _extract_phone_from_customer(customer, default_address)
                   ELSE phone1
        email == IF ~ Truthy(email1) THEN GetStr(customer.email) ELSE email1
        city == _extract_city(shipping_address, billing_address, default_address)
        province == _extract_province(shipping_address, billing_address, default_address)
        profile == [name |-> name, address |-> address, phone |-> phone,
                    city |-> city, province |-> province, email |-> email]
    IN  IF customer.is = "null" \/ Raised \in {name1, address1, phone1}
           \/ \E k \in DOMAIN profile : profile[k] = Raised
          THEN [raised |-> TRUE, profile |-> [k \in DOMAIN profile |-> Raised]]
          ELSE [raised |-> FALSE, profile |-> profile]

\* ------------------------------------------------------- line amounts

\* A line item: its unit price in thousandths (price "9.99" is 9990, price
\* "0.004" is 4) and its quantity.  An order carries up to MaxLines items.
Prices == {4, 290, 1000, 9990}
Quantities == 1 .. MaxQuantity
LineItems == [price : Prices, quantity : Quantities]

RECURSIVE SeqsUpTo(_, _)
SeqsUpTo(S, n) ==
    IF n = 0 THEN {<<>>}
    ELSE LET shorter == SeqsUpTo(S, n - 1)
         IN  shorter \cup {Append(l, i) : l \in {s \in shorter : Len(s) = n - 1}, i \in S}

LineItemLists == SeqsUpTo(LineItems, MaxLines)

\* Prices p up to 1.00 for which the double float(p) * 100 lies below the
\* integer, so that int() gives one less (0.29 * 100 is 28.999999999999996).
TruncatedPrices == {290, 570, 580}

\* int(float(item['price']) * 100)
price_in_cents(price) ==
    IF price \in TruncatedPrices THEN price \div 10 - 1 ELSE price \div 10

\* round(x, 2) of an amount in thousandths, in hundredths.  A double that
\* lies halfway between two hundredths goes by its binary expansion; no
\* product and no sum of the prices above ends in 5 thousandths.
Round2(amount) == (amount + 5) \div 10

\* The value of the order's 'gateway' key as line 131 reads it.
Gateways == {"absent", "null", "", "Cash on Delivery (COD)", "shopify_payments"}
CashGateways == {"Cash on Delivery (COD)"}

\* order_products of create_courier_order: one line per item with the unit
\* price in cents; the quantity is not read.  No item: one default line.
order_products(line_items) ==
    IF line_items = <<>>
      THEN <<[name |-> "Online Order Items", price |-> 100]>>
      ELSE [i \in DOMAIN line_items |->
              [name |-> "item", price |-> price_in_cents(line_items[i].price)]]

\* products of _prepare_receipt_data: price is round(price * quantity, 2), in
\* hundredths.  No item: one default line with the order's total_price.
products(line_items, total_price) ==
    IF line_items = <<>>
      THEN <<[goodName |-> "Online Order Items", quantity |-> 1,
              price |-> Round2(total_price)]>>
      ELSE [i \in DOMAIN line_items |->
              [goodName |-> "item", quantity |-> line_items[i].quantity,
               price |-> Round2(line_items[i].price * line_items[i].quantity)]]

\* total_amount of _prepare_receipt_data, in thousandths: the sum of price *
\* quantity over the items (line 83), or the order's total_price (line 116).
RECURSIVE SumAmounts(_)
SumAmounts(line_items) ==
    IF line_items = <<>> THEN 0
    ELSE line_items[1].price * line_items[1].quantity + SumAmounts(Tail(line_items))

total_amount(line_items, total_price) ==
    IF line_items = <<>> THEN total_price ELSE SumAmounts(line_items)

\* The dict _prepare_receipt_data returns (lines 131-158), or None when
\* .lower() of a null gateway raises and line 162 is reached.
NoReceiptData == [is |-> "None", cashAmount |-> 0, cardAmount |-> 0]

receipt_data(line_items, total_price, gateway) ==
    IF gateway = "null" THEN NoReceiptData
    ELSE IF gateway \in CashGateways
      THEN [is |-> "dict", cashAmount |-> Round2(total_amount(line_items, total_price)),
            cardAmount |-> 0]
      ELSE [is |-> "dict", cashAmount |-> 0,
            cardAmount |-> Round2(total_amount(line_items, total_price))]

\* What the functions were applied to and what they returned: the order
\* record and its line items, the profile of extract_customer_data, the
\* order_products of the courier payload and the products of the receipt.
NoProfile == [raised |-> FALSE, profile |-> [k \in ProfileFields |-> Missing]]

NoPure ==
    [order |-> BareOrder, line_items |-> <<>>, total_price |-> 0,
     gateway |-> "absent",
     courier |-> FALSE, profile |-> NoProfile, order_products |-> <<>>,
     receipt |-> FALSE, products |-> <<>>, receipt_data |-> NoReceiptData]

\* ------------------------------------------------------------- state

TypeOK ==
    /\ attrs \subseteq EHDMServiceLoaded \cup EHDMServiceFunctions
    /\ processed_orders \subseteq {IntKey(o) : o \in Orders} \cup {StrKey(o) : o \in Orders}
    /\ shop_tags \in [Orders -> SUBSET RawTags]
    /\ shop_fulfilled \in [Orders -> BOOLEAN]
    /\ shop_notes \in [Orders -> BOOLEAN]
    /\ courier_barcodes \subseteq {Barcode(o, n) : o \in Orders, n \in 0 .. MaxRetry}
    /\ confirmed_seen \subseteq Orders
    /\ shop_cancelled \in [Orders -> BOOLEAN]
    /\ courier_refs \subseteq {Barcode(o, n) : o \in Orders, n \in 0 .. MaxRetry}
    /\ adapter.n \in 0 .. MaxCalls
    /\ pure.order \in OrderRecords
    /\ pure.line_items \in LineItemLists
    /\ pure.gateway \in Gateways
    /\ DOMAIN adapter.receipts_processed \subseteq Orders
    /\ \A r \in Req : req[r].resp \in {0, 200, 500}

InitState ==
    /\ processed_webhooks = {}
    /\ processed_orders = {}
    /\ shop_tags = [o \in Orders |-> {}]
    /\ shop_fulfilled = [o \in Orders |-> FALSE]
    /\ shop_notes = [o \in Orders |-> FALSE]
    /\ shop_cancelled = [o \in Orders |-> FALSE]
    /\ courier_refs = {}
    /\ reverse_posts = [o \in Orders |-> 0]
    /\ adapter = NewAdapter
    /\ courier_posts = [o \in Orders |-> 0]
    /\ print_posts = [o \in Orders |-> 0]
    /\ receipts = [o \in Orders |-> 0]
    /\ confirmed_seen = {}
    /\ req = [r \in Req |-> IdleReq]

InitCommon ==
    /\ pure = NoPure
    /\ InitState

Init == attrs = EHDMServiceLoaded /\ courier_barcodes = {} /\ InitCommon

InitMethods ==
    /\ attrs = EHDMServiceLoaded \cup EHDMServiceFunctions
    /\ courier_barcodes = {}
    /\ InitCommon

\* ----------------------------------------------------- the storefront

\* A person adds a tag to an order in the storefront admin.
HumanTag(o, t) ==
    /\ t \notin shop_tags[o]
    /\ shop_tags' = [shop_tags EXCEPT ![o] = @ \cup {t}]
    /\ confirmed_seen' = IF NormTag(t) = "confirmed" THEN confirmed_seen \cup {o}
                                                      ELSE confirmed_seen
    /\ UNCHANGED <<aside, courier_refs, ledger, shop_fulfilled, shop_notes,
                   courier_barcodes, counters, req>>

\* A person cancels an order in the storefront admin.
CancelOrder(o) ==
    /\ ~ shop_cancelled[o]
    /\ shop_cancelled' = [shop_cancelled EXCEPT ![o] = TRUE]
    /\ UNCHANGED <<pure, attrs, reverse_posts, adapter, courier_refs, ledger, remote,
                   counters, confirmed_seen, req>>

\* ------------------------------------------------------ entry points

\* POST /webhook/order-paid arrives: request.json, shopify_order['id'].
StartPaid(r, p) ==
    /\ Free(r)
    /\ p \in Deliverable
    /\ Set(r, [IdleReq EXCEPT !.ep = "paid", !.pc = "wh_check", !.p = p,
                              !.o = p.id, !.key = IntKey(p.id), !.solo = Quiet])
    /\ UNCHANGED <<aside, courier_refs, ledger, remote, counters, confirmed_seen>>

\* POST /webhook/order-updated arrives.
StartUpdated(r, p) ==
    /\ Free(r)
    /\ p \in Deliverable
    /\ Set(r, [IdleReq EXCEPT !.ep = "updated", !.pc = "wh_check", !.p = p,
                              !.o = p.id, !.key = IntKey(p.id), !.solo = Quiet])
    /\ UNCHANGED <<aside, courier_refs, ledger, remote, counters, confirmed_seen>>

\* POST /webhook/order-paid or /webhook/order-updated arrives with a body that
\* is not an order.  Without 'id', shopify_order['id'] raises KeyError and the
\* handler's except answers 500; a body with 'id' goes on to the seen-check.
StartMalformed(r, ep, p) ==
    /\ Free(r)
    /\ LET rq == [IdleReq EXCEPT !.ep = ep, !.p = p, !.solo = Quiet]
       IN  IF p.shape = "no_id"
             THEN Set(r, Reply(rq, 500, "KeyError"))
             ELSE Set(r, [rq EXCEPT !.pc = "wh_check", !.o = p.id,
                                    !.key = IntKey(p.id)])
    /\ UNCHANGED <<aside, courier_refs, ledger, remote, counters, confirmed_seen>>

\* POST /process-order/<order_id> arrives: order_id is the URL string.
StartManual(r, o) ==
    /\ Free(r)
    /\ Set(r, [IdleReq EXCEPT !.ep = "manual", !.pc = "iap_cache", !.o = o,
                              !.key = StrKey(o), !.solo = Quiet])
    /\ UNCHANGED <<aside, courier_refs, ledger, remote, counters, confirmed_seen>>

\* ---------------------------------------------------- webhook dedupe

\* if webhook_id in processed_webhooks: acknowledge and stop.
WebhookSeenCheck(r) ==
    /\ req[r].pc = "wh_check"
    /\ IF generate_webhook_id(req[r].p) \in processed_webhooks
         THEN Set(r, Reply(req[r], 200, "duplicate"))
         ELSE Set(r, [req[r] EXCEPT !.pc = "wh_mark"])
    /\ UNCHANGED <<aside, courier_refs, ledger, remote, counters, confirmed_seen>>

\* WebhookMarkSeen without line 1025/1076: the fingerprint is not recorded.
WebhookMarkSeen_NoRecord(r) ==
    /\ req[r].pc = "wh_mark"
    /\ UNCHANGED processed_webhooks
    /\ IF req[r].ep = "paid"
         THEN Set(r, [req[r] EXCEPT !.pc = "paid_put"])
         ELSE IF req[r].p.shape = "bad_tags"
                THEN Set(r, Reply(req[r], 500, "AttributeError"))
         ELSE IF "confirmed" \in ParseTags(req[r].p.tags)
                THEN Set(r, [req[r] EXCEPT !.pc = "iap_cache"])
                ELSE Set(r, Reply(req[r], 200, "skipping"))
    /\ UNCHANGED <<aside, courier_refs, processed_orders, remote, counters, confirmed_seen>>

\* processed_webhooks[webhook_id] = True; the updated handler then reads the
\* payload's tags and either starts processing or answers "skipping"; tags
\* that are not a string have no split(), and the handler's except answers 500.
WebhookMarkSeen(r) ==
    /\ req[r].pc = "wh_mark"
    /\ processed_webhooks' = processed_webhooks \cup {generate_webhook_id(req[r].p)}
    /\ IF req[r].ep = "paid"
         THEN Set(r, [req[r] EXCEPT !.pc = "paid_put"])
         ELSE IF req[r].p.shape = "bad_tags"
                THEN Set(r, Reply(req[r], 500, "AttributeError"))
         ELSE IF "confirmed" \in ParseTags(req[r].p.tags)
                THEN Set(r, [req[r] EXCEPT !.pc = "iap_cache"])
                ELSE Set(r, Reply(req[r], 200, "skipping"))
    /\ UNCHANGED <<aside, courier_refs, processed_orders, remote, counters, confirmed_seen>>

\* PaidTagUpdate answering 200 whatever the storefront answered.
PaidTagUpdate_AlwaysSaved(r) ==
    /\ req[r].pc = "paid_put"
    /\ \E out \in {"ok", "fail"} :
         LET rq == Called(req[r], "storefront", out)
         IN  /\ shop_tags' = IF out = "ok"
                               THEN [shop_tags EXCEPT ![req[r].o] = {"pending-confirmation"}]
                               ELSE shop_tags
             /\ Set(r, Reply(rq, 200, "saved"))
    /\ UNCHANGED <<aside, courier_refs, ledger, shop_fulfilled, shop_notes,
                   courier_barcodes, counters, confirmed_seen>>

\* requests.put of tags "pending-confirmation" (the PUT replaces the tags).
PaidTagUpdate(r) ==
    /\ req[r].pc = "paid_put"
    /\ \E out \in {"ok", "fail"} :
         LET rq == Called(req[r], "storefront", out)
         IN  IF out = "ok"
               THEN /\ shop_tags' = [shop_tags EXCEPT ![req[r].o] = {"pending-confirmation"}]
                    /\ Set(r, Reply(rq, 200, "saved"))
               ELSE /\ UNCHANGED shop_tags
                    /\ Set(r, Reply(rq, 500, "failed"))
    /\ UNCHANGED <<aside, courier_refs, ledger, shop_fulfilled, shop_notes,
                   courier_barcodes, counters, confirmed_seen>>

\* --------------------------------------- is_order_already_processed

\* if order_id in processed_orders: return True (both process_order_* then
\* return True, "already processed").
CacheCheck(r) ==
    /\ req[r].pc = "iap_cache"
    /\ IF req[r].key \in processed_orders
         THEN Set(r, Return(req[r], "cached"))
         ELSE Set(r, [req[r] EXCEPT !.pc = "iap_get"])
    /\ UNCHANGED <<aside, courier_refs, ledger, remote, counters, confirmed_seen>>

\* The storefront shows the order as handled: a TransImpex Express fulfillment,
\* or a 'processed' or 'shipped' tag.
ShownProcessed(o) ==
    shop_fulfilled[o] \/ ParseTags(shop_tags[o]) \cap {"processed", "shipped"} # {}

\* GET of the order from the storefront; a failed or non-200 GET reads as
\* "not processed".
ShopifyCheck(r) ==
    /\ req[r].pc = "iap_get"
    /\ \E out \in {"ok", "fail"} :
         LET rq == Called(req[r], "storefront", out)
         IN  IF out = "ok" /\ ShownProcessed(req[r].o)
               THEN /\ processed_orders' = processed_orders \cup {req[r].key}
                    /\ Set(r, Return(rq, "shown"))
               ELSE /\ UNCHANGED processed_orders
                    /\ Set(r, [rq EXCEPT !.pc = IF req[r].ep = "manual"
                                                  THEN "fetch" ELSE "login"])
    /\ UNCHANGED <<aside, courier_refs, processed_webhooks, remote, counters, confirmed_seen>>

\* ------------------------------------------------------ the pipeline

\* process_order_immediately fetches the order; a non-200 answer returns False.
FetchOrder(r) ==
    /\ req[r].pc = "fetch"
    /\ \E out \in {"ok", "fail"} :
         LET rq == Called(req[r], "storefront", out)
         IN  IF out = "ok"
               THEN Set(r, [rq EXCEPT !.pc = "login"])
               ELSE Set(r, Return(rq, "failed"))
    /\ UNCHANGED <<aside, courier_refs, ledger, remote, counters, confirmed_seen>>

\* EHDMService(): token None, receipts_processed {}.
NewService(rq) == [rq EXCEPT !.token = FALSE, !.cache = {}]

\* ehdm_service = EHDMService(); ehdm_service.login().  Only the webhook
\* pipeline goes on to the receipt, and only after a successful login.
Login(r) ==
    /\ req[r].pc = "login"
    /\ \E out \in {"ok", "fail"} :
         Set(r, [NewService(Called(req[r], "login", out)) EXCEPT
                   !.token = (out = "ok"),
                   !.pc = IF out = "ok" /\ req[r].ep = "updated"
                            THEN "receipt" ELSE "courier"])
    /\ UNCHANGED <<aside, courier_refs, ledger, remote, counters, confirmed_seen>>

\* generate_fiscal_receipt without the lookup of lines 206-208.
generate_fiscal_receipt_NoLookup(token, cache, o, out) ==
    IF ~ token
      THEN [success |-> FALSE, sent |-> FALSE, cache |-> cache]
    ELSE IF out = "ok"
      THEN [success |-> TRUE, sent |-> TRUE, cache |-> cache \cup {o}]
      ELSE [success |-> FALSE, sent |-> TRUE, cache |-> cache]

\* generate_fiscal_receipt on a service with token `token` and cache `cache`
\* for order o, the print request answered `out`:
\* [success, sent (a print request went out), cache (receipts_processed after)].
generate_fiscal_receipt(token, cache, o, out) ==
    IF o \in cache
      THEN [success |-> TRUE, sent |-> FALSE, cache |-> cache]
    ELSE IF ~ token
      THEN [success |-> FALSE, sent |-> FALSE, cache |-> cache]
    ELSE IF out = "ok"
      THEN [success |-> TRUE, sent |-> TRUE, cache |-> cache \cup {o}]
      ELSE [success |-> FALSE, sent |-> TRUE, cache |-> cache]

\* receipt_success, receipt_data, receipt_message =
\*     ehdm_service.generate_fiscal_receipt(shopify_order)
\* An unbound method raises AttributeError, which the pipeline's except turns
\* into return False.
GenerateReceipt(r) ==
    /\ req[r].pc = "receipt"
    /\ IF "generate_fiscal_receipt" \notin attrs
         THEN /\ Set(r, Return(req[r], "failed"))
              /\ UNCHANGED <<print_posts, receipts>>
         ELSE \E out \in {"ok", "fail"} :
                LET g == generate_fiscal_receipt(req[r].token, req[r].cache,
                                                 req[r].o, out)
                    rq == IF g.sent THEN Called(req[r], "print", out) ELSE req[r]
                IN  /\ Set(r, [rq EXCEPT
                                 !.pc = "courier",
                                 !.cache = g.cache,
                                 !.rs = IF g.success THEN "true" ELSE "false"])
                    /\ print_posts' = [print_posts EXCEPT ![req[r].o] =
                                         IF g.sent THEN @ + 1 ELSE @]
                    /\ receipts' = [receipts EXCEPT ![req[r].o] =
                                      IF g.sent /\ g.success THEN @ + 1 ELSE @]
    /\ UNCHANGED <<aside, courier_refs, ledger, remote, courier_posts, confirmed_seen>>

\* The courier's answer to a create-draft-order request with barcode b, when it
\* is otherwise willing (`out`): a barcode it already holds is refused with 422.
CourierAnswer(b, out) ==
    IF b \in courier_barcodes THEN "taken"
    ELSE IF out = "ok" THEN "created" ELSE "error"

\* CreateCourierOrder returning base_barcode_id as the tracking number.
CreateCourierOrder_BaseTracking(r) ==
    /\ req[r].pc = "courier"
    /\ IF "create_courier_order" \notin attrs
         THEN /\ Set(r, Return(req[r], "failed"))
              /\ UNCHANGED <<courier_barcodes, courier_posts, courier_refs>>
         ELSE \E out \in {"ok", "fail"} :
                LET b == Barcode(req[r].o, req[r].retry)
                    ans == CourierAnswer(b, out)
                    rq == Called(req[r], "courier",
                                 IF ans = "error" THEN "fail" ELSE "ok")
                IN  /\ courier_posts' = [courier_posts EXCEPT ![req[r].o] = @ + 1]
                    /\ courier_refs' = courier_refs \cup {b}
                    /\ courier_barcodes' =
                         IF ans = "created" THEN courier_barcodes \cup {b}
                                            ELSE courier_barcodes
                    /\ Set(r, CASE ans = "created" ->
                                     [rq EXCEPT !.trk = Barcode(req[r].o, 0),
                                                !.pc = IF req[r].ep = "call"
                                                         THEN "done" ELSE "wb_fulfil"]
                                [] ans = "taken" /\ req[r].retry < MaxRetry ->
                                     [rq EXCEPT !.retry = @ + 1]
                                [] OTHER -> Return(rq, "failed"))
    /\ UNCHANGED <<aside, ledger, shop_tags, shop_fulfilled, shop_notes, print_posts, receipts,
                   confirmed_seen>>

\* CreateCourierOrder recursing while retry_count <= 3.
CreateCourierOrder_OneMoreRetry(r) ==
    /\ req[r].pc = "courier"
    /\ IF "create_courier_order" \notin attrs
         THEN /\ Set(r, Return(req[r], "failed"))
              /\ UNCHANGED <<courier_barcodes, courier_posts, courier_refs>>
         ELSE \E out \in {"ok", "fail"} :
                LET b == Barcode(req[r].o, req[r].retry)
                    ans == CourierAnswer(b, out)
                    rq == Called(req[r], "courier",
                                 IF ans = "error" THEN "fail" ELSE "ok")
                IN  /\ courier_posts' = [courier_posts EXCEPT ![req[r].o] = @ + 1]
                    /\ courier_refs' = courier_refs \cup {b}
                    /\ courier_barcodes' =
                         IF ans = "created" THEN courier_barcodes \cup {b}
                                            ELSE courier_barcodes
                    /\ Set(r, CASE ans = "created" ->
                                     [rq EXCEPT !.trk = b,
                                                !.pc = IF req[r].ep = "call"
                                                         THEN "done" ELSE "wb_fulfil"]
                                [] ans = "taken" /\ req[r].retry <= MaxRetry ->
                                     [rq EXCEPT !.retry = @ + 1]
                                [] OTHER -> Return(rq, "failed"))
    /\ UNCHANGED <<aside, ledger, shop_tags, shop_fulfilled, shop_notes, print_posts, receipts,
                   confirmed_seen>>

\* tracking_number = ehdm_service.create_courier_order(shopify_order): one
\* create-draft-order request per step; a "taken" answer recurses with
\* retry_count + 1 while retry_count < 3.  The tracking number of a 200 answer
\* (the order's key, barcode_id or id in the response, else barcode_id) is
\* written as the barcode id of the request the answer belongs to.
CreateCourierOrder(r) ==
    /\ req[r].pc = "courier"
    /\ IF "create_courier_order" \notin attrs
         THEN /\ Set(r, Return(req[r], "failed"))
              /\ UNCHANGED <<courier_barcodes, courier_posts, courier_refs>>
         ELSE \E out \in {"ok", "fail"} :
                LET b == Barcode(req[r].o, req[r].retry)
                    ans == CourierAnswer(b, out)
                    rq == Called(req[r], "courier",
                                 IF ans = "error" THEN "fail" ELSE "ok")
                IN  /\ courier_posts' = [courier_posts EXCEPT ![req[r].o] = @ + 1]
                    /\ courier_refs' = courier_refs \cup {b}
                    /\ courier_barcodes' =
                         IF ans = "created" THEN courier_barcodes \cup {b}
                                            ELSE courier_barcodes
                    /\ Set(r, CASE ans = "created" ->
                                     [rq EXCEPT !.trk = b,
                                                !.pc = IF req[r].ep = "call"
                                                         THEN "done" ELSE "wb_fulfil"]
                                [] ans = "taken" /\ req[r].retry < MaxRetry ->
                                     [rq EXCEPT !.retry = @ + 1]
                                [] OTHER -> Return(rq, "failed"))
    /\ UNCHANGED <<aside, ledger, shop_tags, shop_fulfilled, shop_notes, print_posts, receipts,
                   confirmed_seen>>

\* Line 984 reads receipt_success, which is bound only when the login
\* succeeded: after a failed login the read raises and the pipeline returns
\* False.  Otherwise _create_fulfillment_simple gets the location id, posts
\* the fulfillment and, given a receipt link, puts it in the order's notes.
CreateFulfillment(r) ==
    /\ req[r].pc = "wb_fulfil"
    /\ IF req[r].ep = "updated" /\ req[r].rs = "unbound"
         THEN /\ Set(r, Return(req[r], "failed"))
              /\ UNCHANGED shop_fulfilled
         ELSE \E out \in {"ok", "fail"} :
                LET rq == Also(Called(req[r], "storefront", out),
                               IF out = "ok" /\ req[r].rs = "true" THEN 2 ELSE 1)
                IN  IF out = "ok"
                      THEN /\ shop_fulfilled' = [shop_fulfilled EXCEPT ![req[r].o] = TRUE]
                           /\ Set(r, [rq EXCEPT !.pc = "wb_tags", !.wb = "fulfillment"])
                      ELSE /\ UNCHANGED shop_fulfilled
                           /\ Set(r, [rq EXCEPT !.pc = "wb_manual"])
    /\ UNCHANGED <<aside, courier_refs, ledger, shop_tags, shop_notes, courier_barcodes,
                   counters, confirmed_seen>>

\* _mark_order_processed: PUT of tags "processed,fulfilled"; its outcome is
\* not looked at.
MarkOrderProcessedTags(r) ==
    /\ req[r].pc = "wb_tags"
    /\ \E out \in {"ok", "fail"} :
         /\ shop_tags' = IF out = "ok"
                           THEN [shop_tags EXCEPT ![req[r].o] = {"processed", "fulfilled"}]
                           ELSE shop_tags
         /\ Set(r, [Called(req[r], "storefront", out) EXCEPT !.pc = "mark"])
    /\ UNCHANGED <<aside, courier_refs, ledger, shop_fulfilled, shop_notes,
                   courier_barcodes, counters, confirmed_seen>>

\* _update_order_manually: the fallback PUT of status, tags and note attributes.
UpdateOrderManually(r) ==
    /\ req[r].pc = "wb_manual"
    /\ \E out \in {"ok", "fail"} :
         LET rq == Called(req[r], "storefront", out)
         IN  IF out = "ok"
               THEN /\ shop_tags' = [shop_tags EXCEPT ![req[r].o] = {"processed", "fulfilled"}]
                    /\ shop_notes' = [shop_notes EXCEPT ![req[r].o] = TRUE]
                    /\ Set(r, [rq EXCEPT !.pc = "mark", !.wb = "manual"])
               ELSE /\ UNCHANGED <<shop_tags, shop_notes>>
                    /\ Set(r, Return(rq, "failed"))
    /\ UNCHANGED <<aside, courier_refs, ledger, shop_fulfilled, courier_barcodes, counters,
                   confirmed_seen>>

\* mark_order_as_processed(order_id); return True.
MarkProcessed(r) ==
    /\ req[r].pc = "mark"
    /\ processed_orders' = processed_orders \cup {req[r].key}
    /\ Set(r, Return(req[r], "marked"))
    /\ UNCHANGED <<aside, courier_refs, processed_webhooks, remote, counters, confirmed_seen>>

\* ------------------------------------- direct calls on one EHDMService

\* ehdm_service.login() on the instance: a 200 answer stores the token header
\* (None when the header is missing), any other answer leaves the token.
AdapterLogin(out) ==
    /\ Quiet /\ adapter.n < MaxCalls
    /\ adapter' = [adapter EXCEPT
                     !.n = @ + 1,
                     !.token = CASE out = "ok" -> TRUE
                                 [] out = "notoken" -> FALSE
                                 [] OTHER -> @,
                     !.ret = [NoReturn EXCEPT !.fn = "login", !.ok = (out = "ok")]]
    /\ UNCHANGED <<pure, attrs, shop_cancelled, reverse_posts, courier_refs, ledger, remote,
                   counters, confirmed_seen, req>>

\* receipts_processed after receipt_info was stored for order o.
Stored(store, o, info) ==
    [x \in DOMAIN store \cup {o} |-> IF x = o THEN info ELSE store[x]]

\* ehdm_service.generate_fiscal_receipt(order o) on the instance, the print
\* request (if one is sent) answered resp.
IssueReceipt(o, resp) ==
    /\ Quiet /\ adapter.n < MaxCalls
    /\ LET store == adapter.receipts_processed
           g == generate_fiscal_receipt(adapter.token, DOMAIN store, o,
                                        IF resp.status = 200 THEN "ok" ELSE "fail")
           after == IF g.sent /\ g.success THEN Stored(store, o, ReceiptInfo(resp))
                                            ELSE store
       IN  /\ adapter' = [adapter EXCEPT
                            !.n = @ + 1,
                            !.receipts_processed = after,
                            !.ret = [fn |-> "issue", o |-> o, ok |-> g.success,
                                     data |-> IF g.success THEN {after[o]} ELSE {},
                                     msg |-> CASE ~ g.sent /\ g.success -> "Receipt already exists"
                                               [] ~ g.sent -> "No valid authentication token"
                                               [] g.success -> "Receipt generated successfully"
                                               [] OTHER -> "EHDM API Error",
                                     resp |-> IF g.sent THEN resp ELSE NoResponse]]
           /\ print_posts' = [print_posts EXCEPT ![o] = IF g.sent THEN @ + 1 ELSE @]
           /\ receipts' = [receipts EXCEPT ![o] = IF g.sent /\ g.success THEN @ + 1 ELSE @]
    /\ UNCHANGED <<pure, attrs, shop_cancelled, reverse_posts, courier_refs, ledger, remote,
                   courier_posts, confirmed_seen, req>>

\* process_order_refund reading the record with .get(): a missing record is
\* reported as a missing receipt id.
process_order_refund_NoLookup(o, out) ==
    /\ Quiet /\ adapter.n < MaxCalls
    /\ LET store == adapter.receipts_processed
           m == IF o \notin DOMAIN store THEN "No receipt ID available"
                ELSE IF store[o].receipt_id = 0 THEN "No receipt ID available"
                ELSE IF out = "ok" THEN "Refund processed successfully"
                ELSE "Refund API Error"
           sent == m \in {"Refund processed successfully", "Refund API Error"}
       IN  /\ adapter' = [adapter EXCEPT
                            !.n = @ + 1,
                            !.ret = [NoReturn EXCEPT
                                       !.fn = "refund", !.o = o, !.msg = m,
                                       !.ok = (m = "Refund processed successfully")]]
           /\ reverse_posts' = [reverse_posts EXCEPT ![o] = IF sent THEN @ + 1 ELSE @]
    /\ UNCHANGED <<pure, attrs, shop_cancelled, courier_refs, ledger, remote, counters,
                   confirmed_seen, req>>

\* ehdm_service.process_order_refund(order o) on the instance, the reverse
\* request (if one is sent) answered out.
process_order_refund(o, out) ==
    /\ Quiet /\ adapter.n < MaxCalls
    /\ LET store == adapter.receipts_processed
           m == IF o \notin DOMAIN store THEN "No receipt found for this order"
                ELSE IF store[o].receipt_id = 0 THEN "No receipt ID available"
                ELSE IF out = "ok" THEN "Refund processed successfully"
                ELSE "Refund API Error"
           sent == m \in {"Refund processed successfully", "Refund API Error"}
       IN  /\ adapter' = [adapter EXCEPT
                            !.n = @ + 1,
                            !.ret = [NoReturn EXCEPT
                                       !.fn = "refund", !.o = o, !.msg = m,
                                       !.ok = (m = "Refund processed successfully")]]
           /\ reverse_posts' = [reverse_posts EXCEPT ![o] = IF sent THEN @ + 1 ELSE @]
    /\ UNCHANGED <<pure, attrs, shop_cancelled, courier_refs, ledger, remote, counters,
                   confirmed_seen, req>>

\* ehdm_service.create_courier_order(order o) called directly; CreateCourierOrder
\* then sends its requests.
StartCourierCall(r, o) ==
    /\ Free(r) /\ Quiet
    /\ Set(r, [IdleReq EXCEPT !.ep = "call", !.pc = "courier", !.o = o,
                              !.solo = TRUE])
    /\ UNCHANGED <<aside, courier_refs, ledger, remote, counters, confirmed_seen>>

\* The process stops and starts again: the module is loaded anew, lines 25-26
\* and 40 run again.
Restart ==
    /\ Quiet /\ adapter.n < MaxCalls
    /\ processed_webhooks' = {}
    /\ processed_orders' = {}
    /\ adapter' = [NewAdapter EXCEPT !.n = adapter.n + 1]
    /\ UNCHANGED <<pure, attrs, shop_cancelled, reverse_posts, courier_refs, remote,
                   counters, confirmed_seen, req>>

\* The process stops and starts again while it serves the webhooks: lines
\* 25-26 run again, and the requests answered before are no longer held.
Reload ==
    /\ Quiet /\ adapter.n < MaxRestarts
    /\ \E r \in Req : req[r].pc = "done"
    /\ processed_webhooks' = {}
    /\ processed_orders' = {}
    /\ adapter' = [NewAdapter EXCEPT !.n = adapter.n + 1]
    /\ req' = [r \in Req |-> IdleReq]
    /\ UNCHANGED <<pure, attrs, shop_cancelled, reverse_posts, courier_refs, remote,
                   counters, confirmed_seen>>

\* ---------------------------------------------------- specifications

Handlers(r) ==
    \/ \E p \in Payloads : StartPaid(r, p)
    \/ \E p \in Payloads : StartUpdated(r, p)
    \/ \E o \in Orders : StartManual(r, o)
    \/ WebhookSeenCheck(r)
    \/ WebhookMarkSeen(r)
    \/ PaidTagUpdate(r)
    \/ CacheCheck(r)
    \/ ShopifyCheck(r)
    \/ FetchOrder(r)
    \/ Login(r)
    \/ GenerateReceipt(r)
    \/ CreateCourierOrder(r)

Methods(r) ==
    \/ CreateFulfillment(r)
    \/ MarkOrderProcessedTags(r)
    \/ UpdateOrderManually(r)
    \/ MarkProcessed(r)

Storefront == \E o \in Orders, t \in HumanTags : HumanTag(o, t)

Cancellation == \E o \in Orders : CancelOrder(o)

BadDelivery ==
    \E r \in Req, ep \in {"paid", "updated"}, p \in Malformed : StartMalformed(r, ep, p)

Next == (\E r \in Req : Handlers(r)) \/ Storefront \/ Cancellation \/ BadDelivery

NextMethods == (\E r \in Req : Handlers(r) \/ Methods(r)) \/ Storefront

Spec == Init /\ [][Next]_vars

SpecMethods == InitMethods /\ [][NextMethods]_vars

\* Direct calls of the functions of lines 185-827 as methods of one instance,
\* one after the other, the courier already holding any set of barcode ids.
InitAdapter ==
    /\ attrs = EHDMServiceLoaded \cup EHDMServiceFunctions
    /\ courier_barcodes \in SUBSET {Barcode(o, n) : o \in Orders, n \in 0 .. MaxRetry}
    /\ InitCommon

NextAdapter ==
    \/ \E out \in {"ok", "notoken", "fail"} : AdapterLogin(out)
    \/ \E o \in Orders, resp \in PrintResponses : IssueReceipt(o, resp)
    \/ \E o \in Orders, out \in {"ok", "fail"} : process_order_refund(o, out)
    \/ \E r \in Req, o \in Orders : StartCourierCall(r, o)
    \/ \E r \in Req : CreateCourierOrder(r)
    \/ Restart

SpecAdapter == InitAdapter /\ [][NextAdapter]_vars

\* Lines 703-725 of create_courier_order, called for the order record:
\* customer_data = self.extract_customer_data(shopify_order), then the
\* order_products of the payload.  An exception leaves the payload unbuilt.
CourierOrderData ==
    /\ ~ pure.courier
    /\ LET customer_data == extract_customer_data(pure.order)
       IN  pure' = [pure EXCEPT
                      !.courier = TRUE,
                      !.profile = customer_data,
                      !.order_products = IF customer_data.raised THEN <<>>
                                         ELSE order_products(pure.line_items)]
    /\ UNCHANGED <<attrs, shop_cancelled, reverse_posts, adapter, courier_refs,
                   ledger, remote, counters, confirmed_seen, req>>

\* _prepare_receipt_data(shopify_order): the products list of lines 75-128
\* and what the function returns.
PrepareReceiptData ==
    /\ ~ pure.receipt
    /\ pure' = [pure EXCEPT !.receipt = TRUE,
                            !.products = products(pure.line_items, pure.total_price),
                            !.receipt_data = receipt_data(pure.line_items,
                                                          pure.total_price, pure.gateway)]
    /\ UNCHANGED <<attrs, shop_cancelled, reverse_posts, adapter, courier_refs,
                   ledger, remote, counters, confirmed_seen, req>>

\* The functions that send nothing, applied to any order record, and to any
\* list of line items or an order without line items under any gateway.
InitFunctions ==
    /\ attrs = EHDMServiceLoaded \cup EHDMServiceFunctions
    /\ courier_barcodes = {}
    /\ pure \in {[NoPure EXCEPT !.order = o] : o \in OrderRecords}
                 \cup {[NoPure EXCEPT !.line_items = l, !.gateway = g] :
                          l \in LineItemLists, g \in Gateways}
                 \cup {[NoPure EXCEPT !.total_price = t, !.gateway = g] :
                          t \in Prices, g \in Gateways}
    /\ InitState

NextFunctions == CourierOrderData \/ PrepareReceiptData

SpecFunctions == InitFunctions /\ [][NextFunctions]_vars

\* The functions bound as methods, the requests handled one after the
\* other, and the process restarting between them; MaxReqAfterRestart
\* requests arrive after a restart.
NextRestart ==
    \/ /\ \E r \in Req : /\ (adapter.n >= 1 => r <= MaxReqAfterRestart)
                          /\ (Handlers(r) \/ Methods(r))
       /\ Sequential'
    \/ Storefront
    \/ Reload

SpecRestart == InitMethods /\ [][NextRestart]_vars

\* ------------------------------------------------------------- claims

Webhook(r) == req[r].ep \in {"paid", "updated"}

\* The request got past the seen-check of its handler.
Passed(r) ==
    /\ Webhook(r)
    /\ req[r].pc \notin {"idle", "wh_check"}
    /\ req[r].msg \notin {"duplicate", "KeyError"}

\* The request called process_order_from_webhook or process_order_immediately.
Triggered(r) ==
    \/ req[r].ep = "manual"
    \/ /\ req[r].ep = "updated"
       /\ Passed(r)
       /\ req[r].pc # "wh_mark"
       /\ req[r].msg \notin {"skipping", "AttributeError"}

Triggers(o) == {r \in Req : Triggered(r) /\ req[r].o = o}


\* C1: when the confirmation trigger is invoked for one order by several
\* callers (order-updated webhooks carrying 'confirmed', manual calls), no
\* service fails any of them and the storefront did not show the order as
\* handled already, then once all have been answered exactly one fiscal
\* receipt was issued and exactly one courier shipment was created.
C1_ExactlyOnce ==
    \A o \in Orders :
        ( /\ Cardinality(Triggers(o)) >= 2
          /\ \A r \in Triggers(o) :
                /\ req[r].pc = "done"
                /\ req[r].ext = {}
                /\ req[r].how \in {"marked", "failed", "cached"}
          /\ \E r \in Triggers(o) : req[r].how \in {"marked", "failed"} )
        => receipts[o] = 1 /\ Shipments(o) = 1

C4_PaidTwice ==
    \A r1, r2 \in Req :
        ( /\ r1 < r2
          /\ req[r1].ep = "paid" /\ req[r2].ep = "paid"
          /\ req[r1].p = req[r2].p /\ req[r1].p.shape # "no_id"
          /\ req[r2].solo /\ req[r2].pc = "done"
          /\ \A r0 \in Req \ {r1, r2} :
                generate_webhook_id(req[r0].p) # generate_webhook_id(req[r1].p) )
        => /\ Passed(r1) /\ req[r1].calls = 1
           /\ req[r1].msg = (IF req[r1].ext = {} THEN "saved" ELSE "failed")
           /\ ~ Passed(r2) /\ req[r2].calls = 0
           /\ req[r2].resp = 200 /\ req[r2].msg = "duplicate"
           /\ generate_webhook_id(req[r1].p) \in processed_webhooks

C4_Witness ==
    \E r1, r2 \in Req :
        /\ r1 < r2
        /\ req[r1].ep = "paid" /\ req[r2].ep = "paid"
        /\ req[r1].p = req[r2].p
        /\ req[r2].solo /\ req[r2].pc = "done"
        /\ req[r1].msg = "saved"
        /\ shop_tags[req[r1].o] = {"pending-confirmation"}

\* C5: of two handler invocations with the same fingerprint, at most one gets
\* past the seen-check.
C5_FingerprintOnce ==
    \A r1, r2 \in Req :
        ( /\ r1 # r2
          /\ Webhook(r1) /\ Webhook(r2)
          /\ generate_webhook_id(req[r1].p) = generate_webhook_id(req[r2].p) )
        => ~ (Passed(r1) /\ Passed(r2))

RanPipeline(r, failed) ==
    /\ req[r].ep = "updated"
    /\ "confirmed" \in ParseTags(req[r].p.tags)
    /\ req[r].pc = "done"
    /\ req[r].how \in {"marked", "failed"}
    /\ req[r].ext = failed

Fulfilled(r) ==
    /\ req[r].resp = 200
    /\ req[r].how = "marked"
    /\ req[r].trk \in courier_barcodes
    /\ req[r].wb # "none"
    /\ req[r].key \in processed_orders

\* C7: an order-updated event carrying 'confirmed' for an order not processed
\* before, every service answering well, ends with the order recorded as
\* processed and a success response.
C7_HappyPath == \A r \in Req : RanPipeline(r, {}) => Fulfilled(r)

\* C8: when only the receipt-service login fails, processing of a confirmed
\* order still creates the shipment, writes the tracking back, records the
\* order as processed and answers success.
C8_LoginFailureContinues == \A r \in Req : RanPipeline(r, {"login"}) => Fulfilled(r)

\* C9: an order is in the processed-order ledger only after a
\* courier shipment was created for it and the write-back succeeded.
C9_FulfilledOnlyAfterShipment ==
    \A k \in processed_orders :
        /\ Shipments(k[2]) >= 1
        /\ \E r \in Req : req[r].o = k[2] /\ req[r].wb # "none"

FulfilledBy(r) == req[r].how = "marked" /\ req[r].key \in processed_orders

\* C11: the ledger never holds two distinct keys for one order.
C11_OneRecordPerOrder ==
    \A k1, k2 \in processed_orders : k1[2] = k2[2] => k1 = k2

C19_CancellationReverses ==
    \A r \in Req :
        ( /\ Webhook(r) /\ req[r].p.cancelled
          /\ req[r].pc = "done" /\ req[r].msg # "duplicate" )
        => IF receipts[req[r].o] >= 1
             THEN reverse_posts[req[r].o] >= 1
             ELSE req[r].resp # 200

\* The request is a direct create_courier_order call.
Call(r) == req[r].ep = "call"

\* Every barcode id create_courier_order can build for the order.
AllTaken(o) == {Barcode(o, n) : n \in 0 .. MaxRetry} \subseteq courier_barcodes

\* C13: the tracking number a shipment-creation call returns belongs to the
\* request the courier accepted: after a first request refused as taken, it
\* is the barcode id of the later request, which was sent and accepted, and
\* never the barcode id of the first request.
C13_RetryReference ==
    \A r \in Req :
        (Call(r) /\ req[r].trk # NoTracking)
        => /\ req[r].trk = Barcode(req[r].o, req[r].retry)
           /\ req[r].trk \in courier_refs \cap courier_barcodes
           /\ req[r].retry >= 1 =>
                 /\ Barcode(req[r].o, 0) \in courier_refs
                 /\ req[r].trk # Barcode(req[r].o, 0)

C13_Witness ==
    \E r \in Req : Call(r) /\ req[r].retry = 1 /\ req[r].trk = Barcode(req[r].o, 1)

\* C15 as stated: one shipment-creation call sends at most 3 requests.
C15_ThreeRequests == \A r \in Req : Call(r) => req[r].calls <= 3

\* C15 amended: one shipment-creation call sends at most 4 requests (the
\* first and 3 retries); when the courier refuses every barcode id as taken,
\* the call ends after 4 requests without a tracking number.
C15_FourRequests ==
    \A r \in Req :
        Call(r)
        => /\ req[r].calls <= MaxRetry + 1
           /\ ( /\ req[r].pc = "done"
                /\ AllTaken(req[r].o)
                /\ req[r].trk = NoTracking
                /\ "courier" \notin req[r].ext )
              => req[r].calls = MaxRetry + 1 /\ req[r].how = "failed"

C15_Witness ==
    \E r \in Req :
        /\ Call(r) /\ req[r].pc = "done" /\ req[r].how = "failed"
        /\ req[r].calls = MaxRetry + 1 /\ req[r].trk = NoTracking
        /\ AllTaken(req[r].o)

\* The step is a direct call of fn for order o.
Calls(fn, o) ==
    /\ adapter'.n = adapter.n + 1
    /\ adapter'.ret.fn = fn
    /\ adapter'.ret.o = o

\* C16: issuing a receipt for an order whose record the instance holds
\* returns that record, sends no print request and leaves the store as it is.
C16_IssueRoundTrip ==
    [][ \A o \in Orders :
           (o \in DOMAIN adapter.receipts_processed /\ Calls("issue", o))
           => /\ adapter'.ret.ok
              /\ adapter'.ret.data = {adapter.receipts_processed[o]}
              /\ adapter'.receipts_processed = adapter.receipts_processed
              /\ print_posts' = print_posts /\ receipts' = receipts ]_vars

C16_Witness ==
    /\ adapter.ret.fn = "issue"
    /\ adapter.ret.msg = "Receipt already exists"
    /\ receipts[adapter.ret.o] = 1

\* C17: a refund for an order without a receipt record fails with "No receipt
\* found", sends no reverse request and leaves the store as it is.
C17_RefundWithoutReceipt ==
    [][ \A o \in Orders :
           (o \notin DOMAIN adapter.receipts_processed /\ Calls("refund", o))
           => /\ ~ adapter'.ret.ok
              /\ adapter'.ret.msg = "No receipt found for this order"
              /\ reverse_posts' = reverse_posts
              /\ adapter'.receipts_processed = adapter.receipts_processed ]_vars

C17_Witness ==
    /\ adapter.ret.fn = "refund"
    /\ adapter.ret.msg = "No receipt found for this order"
    /\ adapter.ret.o \notin DOMAIN adapter.receipts_processed

\* C18: the record stored by a successful issuance carries the receipt id of
\* the response, and a refund for an order whose record has no receipt id
\* fails with "No receipt ID available" without a reverse request.
C18_ReversalHandle ==
    [][ \A o \in Orders :
           /\ (Calls("issue", o) /\ adapter'.ret.msg = "Receipt generated successfully")
              => /\ o \in DOMAIN adapter'.receipts_processed
                 /\ adapter'.receipts_processed[o].receipt_id = adapter'.ret.resp.receiptId
           /\ ( /\ Calls("refund", o)
                /\ o \in DOMAIN adapter.receipts_processed
                /\ adapter.receipts_processed[o].receipt_id = 0 )
              => /\ ~ adapter'.ret.ok
                 /\ adapter'.ret.msg = "No receipt ID available"
                 /\ reverse_posts' = reverse_posts ]_vars

C18_Witness ==
    /\ adapter.ret.fn = "refund"
    /\ adapter.ret.msg = "No receipt ID available"
    /\ adapter.ret.o \in DOMAIN adapter.receipts_processed
    /\ adapter.receipts_processed[adapter.ret.o].receipt_id = 0
    /\ receipts[adapter.ret.o] = 1

\* C20: the record of every fiscal receipt that was issued can be retrieved
\* by order id, also after the process restarted.
C20_ReceiptsSurviveRestart ==
    \A o \in Orders : receipts[o] >= 1 => o \in DOMAIN adapter.receipts_processed

\* C21: a webhook delivery that was answered with an error status is not
\* acknowledged as already processed when the identical payload is delivered
\* again to the same handler: the redelivery gets past the seen-check.
C21_FailureRedelivered ==
    \A r1, r2 \in Req :
        ( /\ r1 < r2
          /\ Webhook(r1) /\ req[r2].ep = req[r1].ep
          /\ req[r1].p = req[r2].p
          /\ req[r1].pc = "done" /\ req[r1].resp = 500
          /\ req[r2].solo /\ req[r2].pc = "done" )
        => req[r2].msg # "duplicate"

\* Request r2 is an explicit retry for the order of the failed attempt r1 (an
\* order-updated event carrying 'confirmed'): a manual call or an
\* order-updated event that got past the seen-check, started
\* after r1 had been answered, every service answering it well and nobody
\* having tagged the order 'shipped' by hand.
RetryOf(r1, r2) ==
    /\ r1 < r2
    /\ req[r1].ep = "updated" /\ Triggered(r1)
    /\ req[r1].pc = "done" /\ req[r1].how = "failed"
    /\ Triggered(r2) /\ req[r2].o = req[r1].o
    /\ req[r2].solo /\ req[r2].pc = "done" /\ req[r2].ext = {}
    /\ "shipped" \notin shop_tags[req[r2].o]

\* C22: an explicit retry after a failed attempt for a confirmed order runs
\* the pipeline again and, every service answering well, ends with the order
\* fulfilled.
C22_FailedIsRetriable ==
    \A r1, r2 \in Req : RetryOf(r1, r2) => Fulfilled(r2)

\* C23: a webhook delivery whose body is not an order (no 'id', or 'tags' not
\* a string) is answered with an error status, sends no outbound request and
\* leaves no fingerprint behind.
C23_MalformedRejected ==
    \A r \in Req :
        (Webhook(r) /\ req[r].p.shape # "order" /\ req[r].pc = "done")
        => /\ req[r].resp = 500
           /\ req[r].calls = 0
           /\ generate_webhook_id(req[r].p) \notin processed_webhooks

\* The body of request r is delivered by no other request.
OnlyDelivery(r) ==
    \A r0 \in Req \ {r} :
        req[r0].pc = "idle"
            \/ generate_webhook_id(req[r0].p) # generate_webhook_id(req[r].p)

\* C24: an order-paid event whose body was not delivered before sends exactly
\* one outbound request, the 'pending-confirmation' tag update; it is answered
\* 200 when the storefront accepts the update and 500 when it does not, and
\* in neither case does the handler issue a receipt or create a shipment.
C24_PaidToPending ==
    \A r \in Req :
        ( /\ req[r].ep = "paid" /\ req[r].p.shape = "order"
          /\ req[r].pc = "done"
          /\ OnlyDelivery(r) )
        => /\ Passed(r) /\ req[r].calls = 1
           /\ IF req[r].ext = {}
                THEN req[r].resp = 200 /\ req[r].msg = "saved"
                ELSE req[r].resp = 500 /\ req[r].ext = {"storefront"}
           /\ req[r].trk = NoTracking /\ req[r].rs = "unbound"
           /\ req[r].how = "none"

C24_Witness ==
    \E r \in Req :
        /\ req[r].ep = "paid" /\ req[r].p.shape = "order" /\ req[r].pc = "done"
        /\ \A r0 \in Req \ {r} : req[r0].pc = "idle"
        /\ req[r].resp = 200
        /\ shop_tags[req[r].o] = {"pending-confirmation"}
        /\ courier_posts[req[r].o] = 0 /\ print_posts[req[r].o] = 0

\* extract_customer_data was applied to the order record.
Resolved == pure.courier

\* What the resolver returned.
Profile == pure.profile.profile

\* C25: the resolver returns a profile for every order record, also for one
\* whose shipping_address, billing_address or customer is absent or null; it
\* never raises.
C25_ResolverTotal == Resolved => ~ pure.profile.raised

\* The value is absent, null, empty or white space only.
IsBlank(v) == v \in {Missing, Null, Empty, Blank}

\* C26: whenever the resolver returns a profile, its name, address, phone,
\* city and province are non-blank, also for an order whose source fields are
\* blank or white space only.
C26_NoBlankField ==
    (Resolved /\ ~ pure.profile.raised)
        => \A k \in {"name", "address", "phone", "city", "province"} :
              ~ IsBlank(Profile[k])

\* The object carries nothing: the key is absent, the value is null, or it is
\* a dict whose fields are absent, null or empty strings.
Unpopulated(a, fields) ==
    a.is # "dict" \/ \A k \in fields : a[k] \in {Missing, Null, Empty}

\* No source of the order is populated.
NothingPopulated(order) ==
    /\ Unpopulated(order.shipping_address, AddressFields)
    /\ Unpopulated(order.billing_address, AddressFields)
    /\ Unpopulated(order.customer, {"first_name", "last_name", "phone", "email"})
    /\ Unpopulated(order.customer.default_address, AddressFields)
    /\ \A k \in {"phone", "email", "contact_email"} : order[k] \in {Missing, Null, Empty}

\* C27: for an order with no source populated the resolver returns the
\* literal defaults: name "Customer", address "Address Not Provided", the
\* placeholder phone, city and province "Yerevan", email ''.
C27_LiteralDefaults ==
    (Resolved /\ NothingPopulated(pure.order))
        => /\ ~ pure.profile.raised
           /\ Profile = [name |-> DefaultName, address |-> DefaultAddress,
                         phone |-> DefaultPhone, city |-> DefaultCity,
                         province |-> DefaultProvince, email |-> Empty]

\* The order has a billing address with a name, a street and a phone, and
\* nothing else: no shipping address, no customer object, no top-level phone
\* or email.
OnlyBilling(order) ==
    /\ order.shipping_address.is # "dict"
    /\ order.customer.is # "dict"
    /\ \A k \in {"phone", "email", "contact_email"} : order[k] \in {Missing, Null}
    /\ order.billing_address.is = "dict"
    /\ \A k \in {"first_name", "last_name", "address1", "phone"} :
          order.billing_address[k] = Text("billing_address", k)

\* C28: for an order with only a billing address the resolver returns the
\* billing name, billing address and billing phone, and the literal defaults
\* for city, province and email.
C28_BillingOnly ==
    (Resolved /\ OnlyBilling(pure.order))
        => /\ ~ pure.profile.raised
           /\ Profile.name = Text("billing_address", "first_name last_name")
           /\ Profile.address.s = "billing_address"
           /\ Profile.phone = Text("billing_address", "phone")
           /\ Profile.city = DefaultCity
           /\ Profile.province = DefaultProvince
           /\ Profile.email = Empty

\* The trimmed name a source yields, Empty when it yields none.
TrimmedName(a) ==
    LET Trim(v) == IF IsBlank(v) THEN Empty ELSE v
    IN  IF a.is # "dict" THEN Empty
        ELSE Join(Trim(a.first_name), Trim(a.last_name), "first_name last_name")

\* The name by the documented order of sources: shipping address, billing
\* address, customer record, the customer's default address, the local part
\* of the email, "Customer".
NameByPriority(order, email) ==
    FirstOf(<<TrimmedName(order.shipping_address),
              TrimmedName(order.billing_address),
              TrimmedName(order.customer),
              TrimmedName(order.customer.default_address),
              IF IsBlank(email) THEN Empty ELSE Text(email.s, "local part")>>,
            DefaultName)

\* C29: the name of the profile is the one of the first source, in the
\* documented order, that yields a non-blank trimmed value; an order whose
\* only populated source is an email gets the email's local part.
C29_NamePriority ==
    (Resolved /\ ~ pure.profile.raised)
        => Profile.name = NameByPriority(pure.order, Profile.email)

\* C30: for an order with one line item priced in whole hundredths, the one
\* order_products line of the courier request and the one product line of
\* the receipt request both carry unit price times quantity (1998 and 19.98
\* for 9.99 times 2).
C30_AmountsTimesQuantity ==
    (pure.courier /\ pure.receipt /\ Len(pure.line_items) = 1
       /\ pure.line_items[1].price % 10 = 0)
        => LET item == pure.line_items[1]
           IN  /\ Len(pure.order_products) = 1
               /\ pure.order_products[1].price * 10 = item.price * item.quantity
               /\ Len(pure.products) = 1
               /\ pure.products[1].price * 10 = item.price * item.quantity

\* The sum of the price fields of the product lines of a receipt request.
RECURSIVE SumLinePrices(_)
SumLinePrices(lines) ==
    IF lines = <<>> THEN 0 ELSE lines[1].price + SumLinePrices(Tail(lines))

\* C31: in every receipt payload one of cashAmount and cardAmount is 0 (the
\* card side when the gateway hint names cash, the cash side otherwise) and
\* the two add up to the sum of the product line prices, or to the order
\* total, to the hundredth, when the order has no line items.
C31_TotalSplit ==
    (pure.receipt /\ pure.receipt_data.is = "dict")
        => /\ IF pure.gateway \in CashGateways
                THEN pure.receipt_data.cardAmount = 0
                ELSE pure.receipt_data.cashAmount = 0
           /\ pure.receipt_data.cashAmount + pure.receipt_data.cardAmount
                = IF pure.line_items = <<>> THEN Round2(pure.total_price)
                  ELSE SumLinePrices(pure.products)

\* C32: an order-paid event that arrives, the requests being handled one
\* after the other, for an order that is recorded as processed and carries the tags
\* 'processed' and 'fulfilled' leaves the order's storefront tags as they
\* are: its tag update never puts 'pending-confirmation' in their place.
C32_PaidLeavesFulfilled ==
    [][ \A r \in Req :
          (/\ req[r].pc = "paid_put"
           /\ req'[r].pc # "paid_put"
           /\ Sequential
           /\ \E k \in processed_orders : k[2] = req[r].o
           /\ {"processed", "fulfilled"} \subseteq shop_tags[req[r].o])
              => shop_tags'[req[r].o] = shop_tags[req[r].o] ]_vars

\* C33: every step that adds a key to the processed-order ledger is the
\* commit of a request that had a courier shipment created for the order and
\* the tracking written back; the already-processed check adds none.
C33_LedgerOnlyByCommit ==
    [][ \A k \in processed_orders' \ processed_orders :
          \E r \in Req :
             /\ req[r].pc = "mark"
             /\ req[r].key = k
             /\ req[r].wb # "none"
             /\ Shipments(k[2]) >= 1 ]_vars

\* The tracking of a shipment of the order was written back to the
\* storefront: as a fulfillment, or in the note attributes of the order.
WrittenBack(o) == Shipments(o) >= 1 /\ (shop_fulfilled[o] \/ shop_notes[o])

ReportedProcessed(o) ==
    \E r \in Req : req[r].o = o /\ req[r].pc = "done" /\ req[r].how \in {"cached", "shown"}

\* C35: no step removes a key from the processed-order ledger or a
\* fingerprint from the fingerprint set, and once the already-processed
\* check has answered True for an order, no check of that order by a
\* request that arrived later answers False.
C35_LedgerOnlyGrows ==
    [][ /\ processed_orders \subseteq processed_orders'
        /\ processed_webhooks \subseteq processed_webhooks'
        /\ \A r \in Req :
              (/\ Sequential
               /\ ReportedProcessed(req[r].o)
               /\ req[r].pc = "iap_get"
               /\ req'[r].pc # "iap_get")
                  => req'[r].how = "shown" ]_vars

====
